---------------------------- MODULE Spec2Model ----------------------------
(***************************************************************************)
(* HumbleForwarder (src/humble_forwarder.py): an SES receipt event is      *)
(* gated on its verdicts, the stored message is fetched once per verified  *)
(* recipient, its headers are replaced, and the result is submitted to the *)
(* relay, with an error email as the fallback of a rejected submission.    *)
(*                                                                         *)
(* A message is a record [headers, payload]: headers is the ordered list   *)
(* of <<name, value>> pairs held by email.message.EmailMessage, payload is *)
(* the body/attachment tree as one opaque token.                           *)
(***************************************************************************)
EXTENDS Naturals, Sequences, FiniteSets, TLC

VARIABLES
    event,          \* the trigger event: [messageId, receipt, recipients]
    store,          \* the message the S3 object of event.messageId parses to
    config,         \* [sender |-> SENDER, recipient |-> RECIPIENT]
    env,            \* [TEST_LARGE_BODY |-> BOOLEAN] (os.getenv)
    pc,             \* position of the running handler / function
    i,              \* index of the loop of lambda_handler over ses_recipients
    ses_recipient,  \* the argument of forward_mail / get_new_message_headers
    message,        \* the message object forward_mail works on
    new_headers,    \* the dict get_new_message_headers returned
    error_message,  \* the message create_error_email returned
    sent,           \* every SES send_raw_email call, in order, with its outcome
    fetched,        \* every S3 get_object call, in order, with its outcome
    attempts,       \* the ses_recipient of every forward_mail call, in order
    is_fail,        \* what is_ses_spam returned (False before the call)
    log,            \* the "message" of every logger.error record, in order
    exception       \* the exception that left the handler ("none" if none)

vars == <<event, store, config, env, pc, i, ses_recipient, message, new_headers,
          error_message, sent, fetched, attempts, is_fail, log, exception>>

-----------------------------------------------------------------------------
(* Bounds *)

MaxRecipients == 3
MaxHdrs == 3

-----------------------------------------------------------------------------
(* Python values *)

\* Python's None, as message[name] returns for a missing header and
\* dict.get for a missing key.
None == "<None>"

NoMessage == [headers |-> <<>>, payload |-> <<>>]

\* str.lower() on the header names of the model (email.message compares
\* header names case-insensitively).
Lower(name) ==
    CASE name = "MIME-Version" -> "mime-version"
      [] name = "Content-Type" -> "content-type"
      [] name = "Content-Disposition" -> "content-disposition"
      [] name = "Content-Transfer-Encoding" -> "content-transfer-encoding"
      [] name = "Date" -> "date"
      [] name = "Subject" -> "subject"
      [] name = "To" -> "to"
      [] name = "From" -> "from"
      [] name = "FROM" -> "from"
      [] name = "Reply-To" -> "reply-to"
      [] name = "X-Forged" -> "x-forged"
      [] OTHER -> name

\* `name in message`
HeaderIn(msg, name) ==
    \E k \in 1..Len(msg.headers) : Lower(msg.headers[k][1]) = Lower(name)

\* message[name]: the value of the first header of that name, else None
HeaderGet(msg, name) ==
    IF HeaderIn(msg, name)
    THEN LET k == CHOOSE k \in 1..Len(msg.headers) :
                      /\ Lower(msg.headers[k][1]) = Lower(name)
                      /\ \A j \in 1..(k-1) : Lower(msg.headers[j][1]) # Lower(name)
         IN msg.headers[k][2]
    ELSE None

\* message.keys(): every header name, duplicates included, in order
HeaderKeys(msg) == [k \in 1..Len(msg.headers) |-> msg.headers[k][1]]

\* del message[name]: removes every header of that name
HeaderDel(msg, name) ==
    [msg EXCEPT !.headers =
        SelectSeq(msg.headers, LAMBDA h : Lower(h[1]) # Lower(name))]

\* What the header factory of email.policy.SMTP stores for an assigned
\* value: a str is kept, None is stored as the text "None".
StoredValue(value) == IF value = None THEN "None" ELSE value

\* message[name] = value: appends the header
HeaderSet(msg, name, value) ==
    [msg EXCEPT !.headers = Append(msg.headers, <<name, StoredValue(value)>>)]

\* bool(value) of a header value or None
Truthy(value) == value # None /\ value # ""

-----------------------------------------------------------------------------
(* is_ses_spam, get_ses_recipients *)

\* Mutant of verdicts: only the spam and virus verdicts are looked at.
verdicts_SpamVirusOnly == <<"spamVerdict", "virusVerdict">>

verdicts == <<"spamVerdict", "virusVerdict", "spfVerdict", "dkimVerdict", "dmarcVerdict">>

\* receipt[verdict].get("status")
VerdictStatus(receipt, verdict) == receipt[verdict].status

\* status == "FAIL"
StatusFails(status) == status = "FAIL"

\* the loop of is_ses_spam from verdicts[k] on, is_fail being acc so far
RECURSIVE SpamLoop(_, _, _)
SpamLoop(receipt, k, acc) ==
    IF k > Len(verdicts) THEN acc
    ELSE SpamLoop(receipt, k + 1,
                  IF /\ verdicts[k] \in DOMAIN receipt
                     /\ StatusFails(VerdictStatus(receipt, verdicts[k]))
                  THEN TRUE ELSE acc)

is_ses_spam(ev) == SpamLoop(ev.receipt, 1, FALSE)

get_ses_recipients(ev) == ev.recipients

-----------------------------------------------------------------------------
(* get_new_message_headers, set_new_message_headers *)

headers_to_keep ==
    <<"MIME-Version", "Content-Type", "Content-Disposition",
      "Content-Transfer-Encoding", "Date", "Subject">>

\* for header in headers_to_keep: if header in message: new_headers[header] = message[header]
KeptHeaders(msg) ==
    LET present == SelectSeq(headers_to_keep, LAMBDA h : HeaderIn(msg, h))
    IN [k \in 1..Len(present) |-> <<present[k], HeaderGet(msg, present[k])>>]

\* Mutant of NewTo: the original To is kept when the message has one.
NewTo_KeepsOriginal(cfg, rcpt, msg) ==
    IF HeaderIn(msg, "To") THEN HeaderGet(msg, "To") ELSE cfg.recipient

NewTo(cfg, rcpt, msg) == cfg.recipient

\* Mutant of NewFrom: without a configured sender the original From is kept.
NewFrom_OriginalFrom(cfg, rcpt, msg) ==
    IF cfg.sender # "" THEN cfg.sender ELSE HeaderGet(msg, "From")

NewFrom(cfg, rcpt, msg) == IF cfg.sender # "" THEN cfg.sender ELSE rcpt

\* Mutant of NewReplyTo: tests `"Reply-To" in message`, not the value.
NewReplyTo_PresentOnly(cfg, rcpt, msg) ==
    IF HeaderIn(msg, "Reply-To")
    THEN HeaderGet(msg, "Reply-To")
    ELSE HeaderGet(msg, "From")

NewReplyTo(cfg, rcpt, msg) ==
    IF Truthy(HeaderGet(msg, "Reply-To"))
    THEN HeaderGet(msg, "Reply-To")
    ELSE HeaderGet(msg, "From")

get_new_message_headers(cfg, rcpt, msg) ==
    KeptHeaders(msg) \o
    << <<"To", NewTo(cfg, rcpt, msg)>>,
       <<"From", NewFrom(cfg, rcpt, msg)>>,
       <<"Reply-To", NewReplyTo(cfg, rcpt, msg)>> >>

\* Mutant of ClearHeaders: the loop runs over the live header list, so that
\* every deletion makes it skip the next key.
RECURSIVE ClearHeaders_Skipping(_, _)
ClearHeaders_Skipping(msg, keys) ==
    IF keys = <<>> THEN msg
    ELSE ClearHeaders_Skipping(HeaderDel(msg, Head(keys)),
                               IF Len(keys) > 1 THEN Tail(Tail(keys)) ELSE <<>>)

\* for header in message.keys(): del message[header]
RECURSIVE ClearHeaders(_, _)
ClearHeaders(msg, keys) ==
    IF keys = <<>> THEN msg
    ELSE ClearHeaders(HeaderDel(msg, Head(keys)), Tail(keys))

\* for (name, value) in new_headers.items(): message[name] = value
RECURSIVE InsertHeaders(_, _)
InsertHeaders(msg, items) ==
    IF items = <<>> THEN msg
    ELSE InsertHeaders(HeaderSet(msg, Head(items)[1], Head(items)[2]), Tail(items))

\* Mutant of set_new_message_headers: the headers are put on a new, empty
\* message instead of the fetched one.
set_new_message_headers_Rebuilds(msg, nh) == InsertHeaders(NoMessage, nh)

set_new_message_headers(msg, nh) ==
    InsertHeaders(ClearHeaders(msg, HeaderKeys(msg)), nh)

-----------------------------------------------------------------------------
(* Inputs *)

Addresses == {"code@coder.dev", "code2@coder.dev"}

Configs ==
    { [sender |-> s, recipient |-> "someone@secret.com"] :
        s \in {"", "fixed@coder.dev"} }

Statuses == {"PASS", "FAIL", "PROCESSING_FAILED", None}

ReceiptKeys ==
    {"spamVerdict", "virusVerdict", "spfVerdict", "dkimVerdict", "dmarcVerdict",
     "otherVerdict"}

Receipts ==
    UNION { [D -> [status : Statuses]] : D \in SUBSET ReceiptKeys }

HeaderPool ==
    { <<"MIME-Version", "1.0">>,
      <<"Content-Type", "multipart/mixed">>,
      <<"Content-Disposition", "inline">>,
      <<"Subject", "test 3 addresses">>,
      <<"subject", "second subject">>,
      <<"To", "a@coder.dev, b@other.com, c@other.com">>,
      <<"From", "Alpha Sigma <user@users.com>">>,
      <<"FROM", "code@coder.dev">>,
      <<"Reply-To", "My Alias <alias@alias.com>">>,
      <<"Reply-To", "">>,
      <<"X-Forged", "1">> }

SeqsUpTo(S, n) == UNION { [1..k -> S] : k \in 0..n }

\* a payload is a tuple of opaque parts
Payloads == {<<"body", "attachment">>}

Messages(n) == [headers : SeqsUpTo(HeaderPool, n), payload : Payloads]

-----------------------------------------------------------------------------
(* SpecGate: is_ses_spam applied to every receipt *)

Idle ==
    /\ store = NoMessage
    /\ config = [sender |-> "", recipient |-> "someone@secret.com"]
    /\ env = [TEST_LARGE_BODY |-> FALSE]
    /\ i = 0
    /\ ses_recipient = None
    /\ message = NoMessage
    /\ new_headers = <<>>
    /\ error_message = NoMessage
    /\ sent = <<>>
    /\ fetched = <<>>
    /\ attempts = <<>>
    /\ log = <<>>
    /\ exception = "none"

InitGate ==
    /\ Idle
    /\ event \in [messageId : {"m1"}, receipt : Receipts, recipients : {<<>>}]
    /\ is_fail = FALSE
    /\ pc = "gate"

CallIsSesSpam ==
    /\ pc = "gate"
    /\ is_fail' = is_ses_spam(event)
    /\ pc' = "gated"
    /\ UNCHANGED <<event, store, config, env, i, ses_recipient, message, new_headers,
                   error_message, sent, fetched, attempts, log, exception>>

NextGate == CallIsSesSpam

SpecGate == InitGate /\ [][NextGate]_vars

-----------------------------------------------------------------------------
(* SpecHdr: get_new_message_headers then set_new_message_headers on every   *)
(* message of at most MaxHdrs headers, as UnitTests.test_header_changes2    *)
(* calls them                                                               *)

InitHdr ==
    /\ event = [messageId |-> "m1", receipt |-> <<>>, recipients |-> <<>>]
    /\ store \in Messages(MaxHdrs)
    /\ message = store
    /\ config \in Configs
    /\ ses_recipient \in Addresses
    /\ env = [TEST_LARGE_BODY |-> FALSE]
    /\ i = 0
    /\ new_headers = <<>>
    /\ error_message = NoMessage
    /\ sent = <<>>
    /\ fetched = <<>>
    /\ attempts = <<>>
    /\ is_fail = FALSE
    /\ log = <<>>
    /\ exception = "none"
    /\ pc = "parsed"

CallGetNewMessageHeaders ==
    /\ pc = "parsed"
    /\ new_headers' = get_new_message_headers(config, ses_recipient, message)
    /\ pc' = "computed"
    /\ UNCHANGED <<event, store, config, env, i, ses_recipient, message,
                   error_message, sent, fetched, attempts, is_fail, log, exception>>

CallSetNewMessageHeaders ==
    /\ pc = "computed"
    /\ message' = set_new_message_headers(message, new_headers)
    /\ pc' = "applied"
    /\ UNCHANGED <<event, store, config, env, i, ses_recipient, new_headers,
                   error_message, sent, fetched, attempts, is_fail, log, exception>>

NextHdr == CallGetNewMessageHeaders \/ CallSetNewMessageHeaders

SpecHdr == InitHdr /\ [][NextHdr]_vars

-----------------------------------------------------------------------------
(* forward_mail and its callees *)

INCOMING_EMAIL_PREFIX == ""

\* get_message_from_s3: the key of the object
ObjectPath(message_id) ==
    IF INCOMING_EMAIL_PREFIX # ""
    THEN <<INCOMING_EMAIL_PREFIX, "/", message_id>>
    ELSE <<message_id>>

\* client_s3.get_object either returns the stored bytes or raises
FetchOutcomes == {"ok", "S3Error"}

\* client_ses.send_raw_email returns, raises botocore's ClientError (the
\* relay answered with an error), or raises anything else (no answer)
SendOutcomes == {"sent", "ClientError", "OtherError"}

\* message.clear_content(): drops the Content-* headers and the payload
clear_content(msg) ==
    [headers |-> SelectSeq(msg.headers, LAMBDA h :
                     Lower(h[1]) \notin {"content-type", "content-disposition",
                                         "content-transfer-encoding"}),
     payload |-> <<>>]

\* message.set_content(text): the payload becomes the text, typed text/plain,
\* and MIME-Version is added when missing
set_content(msg, text) ==
    LET typed == HeaderSet(HeaderSet([msg EXCEPT !.payload = text],
                               "Content-Type", "text/plain; charset=utf-8"),
                           "Content-Transfer-Encoding", "quoted-printable")
    IN IF HeaderIn(msg, "MIME-Version") THEN typed
       ELSE HeaderSet(typed, "MIME-Version", "1.0")

\* if os.getenv("TEST_LARGE_BODY"): clear_content(); set_content("x" * 20000000)
InjectLargeBody(e, msg) ==
    IF e.TEST_LARGE_BODY
    THEN set_content(clear_content(msg), <<"x * 20000000">>)
    ELSE msg

\* Mutant of create_error_email: the error email is addressed as coming from
\* the original sender.
create_error_email_OriginalSender(attempted_message, traceback_string) ==
    LET m1 == HeaderSet(NoMessage, "From", HeaderGet(attempted_message, "Reply-To"))
        m2 == HeaderSet(m1, "To", HeaderGet(attempted_message, "To"))
        m3 == HeaderSet(m2, "Subject", "Email forwarding error")
    IN set_content(m3, <<"There was an error forwarding an email to SES.">>)

create_error_email(attempted_message, traceback_string) ==
    LET m1 == HeaderSet(NoMessage, "From", HeaderGet(attempted_message, "From"))
        m2 == HeaderSet(m1, "To", HeaderGet(attempted_message, "To"))
        m3 == HeaderSet(m2, "Subject", "Email forwarding error")
    IN set_content(m3,
           <<"There was an error forwarding an email to SES.",
             HeaderGet(attempted_message, "Reply-To"),
             HeaderGet(attempted_message, "Subject"),
             traceback_string>>)

\* the arguments of client_ses.send_raw_email, with how the call ended
send_raw_email(kind, attempt, msg, outcome) ==
    [kind |-> kind,
     attempt |-> attempt,
     Source |-> HeaderGet(msg, "From"),
     Destinations |-> <<HeaderGet(msg, "To")>>,
     Data |-> msg,
     outcome |-> outcome]

\* Mutant of AfterGate: the verdicts are logged but the loop runs anyway.
AfterGate_IgnoresVerdict(rejected) == "for"

\* lambda_handler: where is_ses_spam's answer leads
AfterGate(rejected) == IF rejected THEN "returned" ELSE "for"

\* forward_mail: where the outcome of the submission of the message leads;
\* `except ClientError` catches that exception only
AfterSend(outcome) ==
    CASE outcome = "sent" -> "for"
      [] outcome = "ClientError" -> "except"
      [] OTHER -> "raised"

\* Mutant of AfterErrorSend: the second failure is swallowed.
AfterErrorSend_Swallows(outcome) == "for"

\* forward_mail: where the outcome of the submission of the error email
\* leads; nothing catches an exception raised in the except block
AfterErrorSend(outcome) == IF outcome = "sent" THEN "for" ELSE "raised"

-----------------------------------------------------------------------------
(* Spec: one invocation of lambda_handler *)

AllPass ==
    [v \in {"spamVerdict", "virusVerdict", "spfVerdict", "dkimVerdict", "dmarcVerdict"}
        |-> [status |-> "PASS"]]

SampleReceipts ==
    { AllPass,
      [AllPass EXCEPT !["dmarcVerdict"] = [status |-> "FAIL"]],
      [v \in {"spamVerdict"} |-> [status |-> "FAIL"]],
      [v \in {"virusVerdict", "otherVerdict"} |->
          [status |-> IF v = "otherVerdict" THEN "FAIL" ELSE "PROCESSING_FAILED"]],
      [v \in {} |-> [status |-> "PASS"]] }

StoredMessages ==
    { [headers |-> << <<"MIME-Version", "1.0">>,
                      <<"Content-Type", "multipart/mixed">>,
                      <<"Subject", "test 3 addresses">>,
                      <<"To", "a@coder.dev, b@other.com, c@other.com">>,
                      <<"From", "Alpha Sigma <user@users.com>">> >>,
       payload |-> <<"body", "attachment">>],
      [headers |-> << <<"Subject", "test reply-to">>,
                      <<"From", "Alpha Sigma <user@users.com>">>,
                      <<"Reply-To", "My Alias <alias@alias.com>">>,
                      <<"To", "code@coder.dev">> >>,
       payload |-> <<"body">>],
      [headers |-> << <<"X-Forged", "1">>,
                      <<"To", "code@coder.dev">>,
                      <<"To", "someone@secret.com">>,
                      <<"FROM", "code@coder.dev">> >>,
       payload |-> <<"body">>] }

Init ==
    /\ event \in [messageId : {"m1"},
                  receipt : SampleReceipts,
                  recipients : SeqsUpTo(Addresses, MaxRecipients)]
    /\ store \in StoredMessages
    /\ config \in Configs
    /\ env \in [TEST_LARGE_BODY : BOOLEAN]
    /\ pc = "lambda_handler"
    /\ i = 0
    /\ ses_recipient = None
    /\ message = NoMessage
    /\ new_headers = <<>>
    /\ error_message = NoMessage
    /\ sent = <<>>
    /\ fetched = <<>>
    /\ attempts = <<>>
    /\ is_fail = FALSE
    /\ log = <<>>
    /\ exception = "none"

\* lambda_handler, lines 83-97: the gate
Gate ==
    /\ pc = "lambda_handler"
    /\ is_fail' = is_ses_spam(event)
    /\ pc' = AfterGate(is_fail')
    /\ log' = IF is_fail' THEN Append(log, "rejecting spam message") ELSE log
    /\ i' = IF pc' = "for" THEN 1 ELSE i
    /\ UNCHANGED <<event, store, config, env, ses_recipient, message, new_headers,
                   error_message, sent, fetched, attempts, exception>>

\* lambda_handler, lines 101-102: the next recipient, forward_mail is called
ForNext ==
    /\ pc = "for"
    /\ i <= Len(get_ses_recipients(event))
    /\ ses_recipient' = get_ses_recipients(event)[i]
    /\ attempts' = Append(attempts, ses_recipient')
    /\ pc' = "forward_mail"
    /\ UNCHANGED <<event, store, config, env, i, message, new_headers,
                   error_message, sent, fetched, is_fail, log, exception>>

\* lambda_handler: the loop is exhausted, the handler returns
ForDone ==
    /\ pc = "for"
    /\ i > Len(get_ses_recipients(event))
    /\ pc' = "returned"
    /\ UNCHANGED <<event, store, config, env, i, ses_recipient, message, new_headers,
                   error_message, sent, fetched, attempts, is_fail, log, exception>>

\* forward_mail, lines 106-107: get_message_from_s3
Fetch ==
    /\ pc = "forward_mail"
    /\ \E outcome \in FetchOutcomes :
          /\ fetched' = Append(fetched, [key |-> ObjectPath(event.messageId),
                                         outcome |-> outcome])
          /\ IF outcome = "ok"
             THEN /\ message' = store
                  /\ pc' = "fetched"
                  /\ exception' = exception
             ELSE /\ message' = message
                  /\ pc' = "raised"
                  /\ exception' = outcome
    /\ UNCHANGED <<event, store, config, env, i, ses_recipient, new_headers,
                   error_message, sent, attempts, is_fail, log>>

\* forward_mail, lines 109-124: the new headers, applied; the fault injection
Rewrite ==
    /\ pc = "fetched"
    /\ new_headers' = get_new_message_headers(config, ses_recipient, message)
    /\ message' = InjectLargeBody(env, set_new_message_headers(message, new_headers'))
    /\ pc' = "send"
    /\ UNCHANGED <<event, store, config, env, i, ses_recipient,
                   error_message, sent, fetched, attempts, is_fail, log, exception>>

\* forward_mail, lines 127-128: send_raw_email(message)
Send ==
    /\ pc = "send"
    /\ \E outcome \in SendOutcomes :
          /\ sent' = Append(sent, send_raw_email("forward", i, message, outcome))
          /\ pc' = AfterSend(outcome)
          /\ i' = IF pc' = "for" THEN i + 1 ELSE i
          /\ exception' = IF pc' = "raised" THEN outcome ELSE exception
          /\ log' = IF pc' = "except"
                    THEN Append(log, "error sending forwarded email") ELSE log
    /\ UNCHANGED <<event, store, config, env, ses_recipient, message, new_headers,
                   error_message, fetched, attempts, is_fail>>

\* forward_mail, lines 129-133: the error email is built and submitted
Except ==
    /\ pc = "except"
    /\ error_message' = create_error_email(message, "ClientError")
    /\ \E outcome \in SendOutcomes :
          /\ sent' = Append(sent, send_raw_email("error", i, error_message', outcome))
          /\ pc' = AfterErrorSend(outcome)
          /\ i' = IF pc' = "for" THEN i + 1 ELSE i
          /\ exception' = IF pc' = "raised" THEN outcome ELSE exception
    /\ UNCHANGED <<event, store, config, env, ses_recipient, message, new_headers,
                   fetched, attempts, is_fail, log>>

Next == Gate \/ ForNext \/ ForDone \/ Fetch \/ Rewrite \/ Send \/ Except

Spec == Init /\ [][Next]_vars

-----------------------------------------------------------------------------
(* Properties *)

\* new_headers[name] of the dict get_new_message_headers returned
DictGet(nh, name) ==
    IF \E k \in 1..Len(nh) : nh[k][1] = name
    THEN nh[CHOOSE k \in 1..Len(nh) : nh[k][1] = name][2]
    ELSE None

\* how many headers of the message carry that name (case-insensitively)
HeaderCount(msg, name) ==
    Cardinality({k \in 1..Len(msg.headers) : Lower(msg.headers[k][1]) = Lower(name)})

\* the send_raw_email calls of one kind made for one forward_mail call
Calls(kind, attempt) ==
    {k \in 1..Len(sent) : sent[k].kind = kind /\ sent[k].attempt = attempt}

Terminated == pc \in {"returned", "raised"}

TrackedVerdicts ==
    {"spamVerdict", "virusVerdict", "spfVerdict", "dkimVerdict", "dmarcVerdict"}

AllowListed ==
    {"MIME-Version", "Content-Type", "Content-Disposition",
     "Content-Transfer-Encoding", "Date", "Subject"}

\* the From the headers of the attempt for recipient number a are given
ComputedFrom(a) ==
    IF config.sender # "" THEN config.sender ELSE event.recipients[a]

\* C1: when an event passes the verdict gate, forward_mail is started for
\* every verified recipient by the time the invocation ends, even when the
\* attempt for an earlier recipient failed.
C1_EveryRecipientAttempted ==
    (Terminated /\ ~is_fail) => attempts = event.recipients

\* C2: when the verdict gate rejects the event, the handler returns normally
\* and nothing else happened: no fetch, no forward_mail call, no submission
\* to the relay (so no error email), whatever the number of recipients.
C2_RejectedDoesNothing ==
    (pc # "lambda_handler" /\ is_ses_spam(event)) =>
        /\ pc = "returned"
        /\ exception = "none"
        /\ fetched = <<>>
        /\ attempts = <<>>
        /\ sent = <<>>

C2_Witness ==
    /\ pc = "returned"
    /\ is_fail
    /\ Len(event.recipients) >= 2
    /\ log = <<"rejecting spam message">>

\* What follows a failed submission k of the forwarded message: the message
\* is submitted once only, and (once the except block has run) exactly one
\* error email was submitted, right after it, From and To those computed
\* for the attempted message.
NotifiedOnce(k) ==
    LET a == sent[k].attempt
    IN /\ Calls("forward", a) = {k}
       /\ IF pc = "except" /\ k = Len(sent)
          THEN Calls("error", a) = {}
          ELSE /\ Calls("error", a) = {k + 1}
               /\ HeaderGet(sent[k + 1].Data, "From") = ComputedFrom(a)
               /\ HeaderGet(sent[k + 1].Data, "To") = config.recipient
               /\ HeaderCount(sent[k + 1].Data, "From") = 1
               /\ HeaderCount(sent[k + 1].Data, "To") = 1
               /\ sent[k + 1].Source = sent[k].Source
               /\ sent[k + 1].Destinations = sent[k].Destinations
               /\ sent[k].Source = ComputedFrom(a)
               /\ sent[k].Destinations = <<config.recipient>>

C4_NotificationFailurePropagates ==
    \A k \in 1..Len(sent) :
        (sent[k].kind = "error" /\ sent[k].outcome # "sent") =>
            /\ k = Len(sent)
            /\ pc = "raised"
            /\ exception = sent[k].outcome
            /\ Len(attempts) = sent[k].attempt

C4_Witness ==
    /\ pc = "raised"
    /\ sent # <<>>
    /\ sent[Len(sent)].kind = "error"
    /\ sent[Len(sent)].outcome = "ClientError"
    /\ Len(event.recipients) > Len(attempts)

\* C5: is_ses_spam answers True exactly when one of the five tracked
\* verdicts is in the receipt with status "FAIL"; other statuses, missing
\* verdicts and other verdicts of the receipt do not count.
C5_RejectedIffTrackedFail ==
    pc = "gated" =>
        (is_fail <=> \E v \in TrackedVerdicts :
                        /\ v \in DOMAIN event.receipt
                        /\ event.receipt[v].status = "FAIL")

C5_Witness ==
    /\ pc = "gated"
    /\ is_fail
    /\ DOMAIN event.receipt = TrackedVerdicts
    /\ \A v \in TrackedVerdicts :
          event.receipt[v].status = IF v = "dmarcVerdict" THEN "FAIL" ELSE "PASS"

\* C6: the To of the computed headers, and the only To of the message they
\* are applied to, is config.recipient, whatever the original To holds.
C6_ToIsConfigRecipient ==
    /\ pc \in {"computed", "applied"} => DictGet(new_headers, "To") = config.recipient
    /\ pc = "applied" => /\ HeaderGet(message, "To") = config.recipient
                         /\ HeaderCount(message, "To") = 1

C6_Witness ==
    /\ pc = "applied"
    /\ HeaderGet(store, "To") = "a@coder.dev, b@other.com, c@other.com"
    /\ HeaderGet(message, "To") = "someone@secret.com"

\* the From that config and the verified recipient determine
ExpectedFrom == IF config.sender # "" THEN config.sender ELSE ses_recipient

\* C7 as stated: From is config.sender when non-empty, else the verified
\* recipient, and it is never the value of the original From header.
C7_FromNeverOriginal ==
    pc \in {"computed", "applied"} =>
        /\ DictGet(new_headers, "From") = ExpectedFrom
        /\ DictGet(new_headers, "From") # HeaderGet(store, "From")

\* C7 as amended: From is config.sender when non-empty, else the verified
\* recipient; it does not depend on the original From header, and equals
\* that header's value only when the value is the sender or recipient itself.
C7_FromIsSenderOrRecipient ==
    pc \in {"computed", "applied"} =>
        /\ DictGet(new_headers, "From") = ExpectedFrom
        /\ DictGet(get_new_message_headers(config, ses_recipient,
                                           HeaderDel(store, "From")), "From")
               = DictGet(new_headers, "From")
        /\ DictGet(new_headers, "From") = HeaderGet(store, "From")
               => HeaderGet(store, "From") \in {config.sender, ses_recipient}

C7_Witness ==
    /\ pc = "computed"
    /\ config.sender = ""
    /\ HeaderGet(store, "From") = "Alpha Sigma <user@users.com>"
    /\ DictGet(new_headers, "From") = ses_recipient

\* C8: Reply-To is the original Reply-To when the message has one that is
\* not empty, else the original From.
C8_ReplyToPrecedence ==
    pc \in {"computed", "applied"} =>
        DictGet(new_headers, "Reply-To") =
            IF HeaderIn(store, "Reply-To") /\ HeaderGet(store, "Reply-To") # ""
            THEN HeaderGet(store, "Reply-To")
            ELSE HeaderGet(store, "From")

C8_Witness ==
    /\ pc = "computed"
    /\ HeaderGet(store, "Reply-To") = "My Alias <alias@alias.com>"
    /\ HeaderGet(store, "From") = "Alpha Sigma <user@users.com>"
    /\ DictGet(new_headers, "Reply-To") = "My Alias <alias@alias.com>"

\* C9: after the computed headers are applied, the message holds exactly
\* once each: every allow-listed header the original had, with its original
\* value, and To, From, Reply-To; no other header survives.
C9_ExactHeaderSet ==
    pc = "applied" =>
        /\ {message.headers[k][1] : k \in 1..Len(message.headers)}
               = {h \in AllowListed : HeaderIn(store, h)} \cup {"To", "From", "Reply-To"}
        /\ \A k \in 1..Len(message.headers) :
               HeaderCount(message, message.headers[k][1]) = 1
        /\ \A h \in AllowListed :
               HeaderIn(store, h) => HeaderGet(message, h) = HeaderGet(store, h)

C9_Witness ==
    /\ pc = "applied"
    /\ HeaderIn(store, "X-Forged")
    /\ HeaderCount(store, "From") = 2
    /\ ~HeaderIn(store, "Subject")
    /\ ~HeaderIn(message, "X-Forged")
    /\ Len(message.headers) = 3

\* C10 as stated: the payload of every forwarded message handed to the relay
\* is the payload of the message fetched from the store.
C10_PayloadAlwaysKept ==
    \A k \in 1..Len(sent) :
        sent[k].kind = "forward" => sent[k].Data.payload = store.payload

\* C10 as amended: unless the TEST_LARGE_BODY fault injection is switched on,
\* the payload of every forwarded message handed to the relay is the payload
\* of the message fetched from the store.
C10_PayloadKeptWithoutInjection ==
    \A k \in 1..Len(sent) :
        (sent[k].kind = "forward" /\ ~env.TEST_LARGE_BODY)
            => sent[k].Data.payload = store.payload

C10_Witness ==
    /\ ~env.TEST_LARGE_BODY
    /\ sent # <<>>
    /\ sent[1].kind = "forward"
    /\ sent[1].Data.payload = <<"body", "attachment">>
    /\ sent[1].Data.headers # store.headers

=============================================================================
